---- MODULE Spec2Model ----
(***************************************************************************)
(* Model of src/common/tree_sitter_sql.rs: the two MCP tools parse_sql and *)
(* parse_sql_with_error_recovery, the strict gate (has_error) and the      *)
(* renderer write_tree/visit walking the tree with a shared TreeCursor.    *)
(*                                                                         *)
(* The grammar engine is external.  One behaviour fixes one input text sql *)
(* and the tree the (deterministic) parser returns for it; both tools may  *)
(* then be called on that input, in either order.  Text is a sequence of   *)
(* one-character strings; the rendered output is the sequence of pieces    *)
(* that visit pushes, where every source character is a piece of its own,  *)
(* so a newline inside a leaf's text is the same piece as a line end.      *)
(***************************************************************************)
EXTENDS Integers, Sequences, FiniteSets, TLC

VARIABLES sql, language, pc, tree, cursor, stack, result, response

vars == <<sql, language, pc, tree, cursor, stack, result, response>>

\* Largest number of nodes of a tree the parser returns.
MaxNodes == 4

\* const UNIT: usize = 2;
UNIT == 2

StrictTool == "parse_sql"
TolerantTool == "parse_sql_with_error_recovery"
Tools == {StrictTool, TolerantTool}

\* ------------------------------------------------------------------ text

RECURSIVE Concat(_)
Concat(ss) == IF ss = <<>> THEN <<>> ELSE Head(ss) \o Concat(Tail(ss))

Repeat(n, piece) == [i \in 1..n |-> piece]

Count(s, piece) == Cardinality({i \in 1..Len(s) : s[i] = piece})

\* tree_sitter::Point of a byte offset of src: (row, column), both zero-based.
PointAt(src, byte) ==
  LET nls == {i \in 1..byte : src[i] = "\n"}
      last == IF nls = {} THEN 0 ELSE CHOOSE i \in nls : \A j \in nls : j <= i
  IN [row |-> Cardinality(nls), column |-> byte - last]

\* impl Display for Point: "({}, {})"
PointText(p) == "(" \o ToString(p.row) \o ", " \o ToString(p.column) \o ")"

\* ------------------------------------------------------------------ tree
\* A tree is a function from its nodes to their data.  A node is the path of
\* child indices from the root (<<>>), so children are ordered by index.

IsPrefix(p, q) == Len(p) <= Len(q) /\ SubSeq(q, 1, Len(p)) = p

ChildCount(t, n) == Cardinality({m \in DOMAIN t : Len(m) = Len(n) + 1 /\ IsPrefix(n, m)})

IsError(t, n) == t[n].kind = "ERROR"

IsMissing(t, n) == t[n].is_missing

\* Node::has_error with the root only inspected for being an ERROR node.
HasError_RootOnly(t, n) == IsError(t, n)

\* Node::has_error: the node or a descendant is an ERROR node or a node the
\* parser inserted as missing.
HasError(t, n) ==
  \E m \in DOMAIN t : IsPrefix(n, m) /\ (IsError(t, m) \/ IsMissing(t, m))

\* Node::utf8_text: the slice of src between the node's byte offsets.
Utf8Text(t, n, src) == SubSeq(src, t[n].start_byte + 1, t[n].end_byte)

StartPosition(t, n, src) == PointAt(src, t[n].start_byte)
EndPosition(t, n, src) == PointAt(src, t[n].end_byte)

\* TreeCursor moves: [ok |-> the bool returned, at |-> the cursor afterwards].
GotoFirstChild(t, c) ==
  IF (c \o <<1>>) \in DOMAIN t THEN [ok |-> TRUE, at |-> c \o <<1>>]
                               ELSE [ok |-> FALSE, at |-> c]

GotoNextSibling(t, c) ==
  IF c # <<>> /\ (SubSeq(c, 1, Len(c) - 1) \o <<c[Len(c)] + 1>>) \in DOMAIN t
    THEN [ok |-> TRUE, at |-> SubSeq(c, 1, Len(c) - 1) \o <<c[Len(c)] + 1>>]
    ELSE [ok |-> FALSE, at |-> c]

GotoParent(t, c) ==
  IF c # <<>> THEN [ok |-> TRUE, at |-> SubSeq(c, 1, Len(c) - 1)]
              ELSE [ok |-> FALSE, at |-> c]

\* ------------------------------------------------- what the parser returns
\* Shapes are given by the depths of the nodes in document order.

DepthSeqs(n) ==
  {d \in [1..n -> 0..(n - 1)] :
     /\ d[1] = 0
     /\ \A i \in 2..n : d[i] >= 1 /\ d[i] <= d[i - 1] + 1}

ParentIx(d, i) == CHOOSE j \in 1..(i - 1) :
  d[j] = d[i] - 1 /\ \A k \in (j + 1)..(i - 1) : d[k] >= d[i]

RECURSIVE PathOf(_, _)
PathOf(d, i) ==
  IF i = 1 THEN <<>>
  ELSE LET p == ParentIx(d, i)
       IN PathOf(d, p) \o <<Cardinality({k \in (p + 1)..i : d[k] = d[i]})>>

IsLeafIx(d, i) == i = Len(d) \/ d[i + 1] <= d[i]

\* Leaves: a token, a token whose text spans two lines, an ERROR leaf holding
\* an unexpected character, and a zero-width token inserted as missing.
LeafLabels ==
  { [kind |-> "identifier", is_missing |-> FALSE, text |-> <<"a">>],
    [kind |-> "string", is_missing |-> FALSE, text |-> <<"'", "\n", "'">>],
    [kind |-> "ERROR", is_missing |-> FALSE, text |-> <<"?">>],
    [kind |-> "identifier", is_missing |-> TRUE, text |-> <<>>] }

InnerLabels ==
  { [kind |-> "select_statement", is_missing |-> FALSE, text |-> <<>>],
    [kind |-> "ERROR", is_missing |-> FALSE, text |-> <<>>] }

\* The root of a parse is the grammar's start symbol, or ERROR when nothing
\* could be matched; a root without children covers the whole input.
RootLeafLabels ==
  { [kind |-> "source_file", is_missing |-> FALSE, text |-> <<>>],
    [kind |-> "ERROR", is_missing |-> FALSE, text |-> <<"?">>] }

RootInnerLabels ==
  { [kind |-> "source_file", is_missing |-> FALSE, text |-> <<>>],
    [kind |-> "ERROR", is_missing |-> FALSE, text |-> <<>>] }

LabelsFor(d, i) ==
  IF i = 1 THEN (IF IsLeafIx(d, i) THEN RootLeafLabels ELSE RootInnerLabels)
  ELSE (IF IsLeafIx(d, i) THEN LeafLabels ELSE InnerLabels)

Labellings(d) ==
  {l \in [1..Len(d) -> LeafLabels \cup InnerLabels \cup RootLeafLabels \cup RootInnerLabels] :
     \A i \in 1..Len(d) : l[i] \in LabelsFor(d, i)}

\* The source text is the leaves' texts in document order.
SourceOf(d, l) ==
  Concat([i \in 1..Len(d) |-> IF IsLeafIx(d, i) THEN l[i].text ELSE <<>>])

RECURSIVE TextBefore(_, _, _)
TextBefore(d, l, i) ==
  IF i = 1 THEN 0
  ELSE TextBefore(d, l, i - 1) + (IF IsLeafIx(d, i - 1) THEN Len(l[i - 1].text) ELSE 0)

\* Last node of the subtree of i, in document order.
SubtreeEnd(d, i) ==
  CHOOSE j \in i..Len(d) :
    /\ \A k \in (i + 1)..j : d[k] > d[i]
    /\ (j = Len(d) \/ d[j + 1] <= d[i])

TreeOf(d, l) ==
  LET paths == {PathOf(d, i) : i \in 1..Len(d)}
      ix(p) == CHOOSE i \in 1..Len(d) : PathOf(d, i) = p
  IN [p \in paths |->
        [kind |-> l[ix(p)].kind,
         is_missing |-> l[ix(p)].is_missing,
         start_byte |-> TextBefore(d, l, ix(p)),
         end_byte |-> TextBefore(d, l, SubtreeEnd(d, ix(p)) + 1)]]

\* (input, tree) pairs the parser can produce.
Parses ==
  UNION { { [src |-> SourceOf(d, l), tree |-> TreeOf(d, l)] : l \in Labellings(d) } :
          d \in UNION {DepthSeqs(n) : n \in 1..MaxNodes} }

\* fn parse(sql) -> Tree
Parse(s) == language[s]

\* ------------------------------------------------------------- responses

None == [type |-> "None"]

NoTree == [n \in {} |-> None]

\* Err(McpError::invalid_params("Failed to parse sql".to_string(), None))
InvalidParams == [type |-> "Err", code |-> "invalid_params", message |-> "Failed to parse sql"]

\* Ok(CallToolResult::success(vec![Content::text(result)]))
Success(text) == [type |-> "Ok", text |-> text]

\* --------------------------------------------------------------- renderer

\* " [{}-{}]\n" without the leading space and the newline.
SpanPiece(t, n, src) ==
  "[" \o PointText(StartPosition(t, n, src)) \o "-"
      \o PointText(EndPosition(t, n, src)) \o "]"

\* The node's line with the source text quoted whatever the child count.
NodeLine_QuotesEveryNode(t, n, depth, src) ==
  Repeat(depth * UNIT, "-")
  \o <<t[n].kind>>
  \o <<" ", "\"">> \o Utf8Text(t, n, src) \o <<"\"">>
  \o <<" ", SpanPiece(t, n, src), "\n">>

\* The node's line with the quotes left out when the leaf covers no text.
NodeLine_NoEmptyQuote(t, n, depth, src) ==
  Repeat(depth * UNIT, "-")
  \o <<t[n].kind>>
  \o (IF ChildCount(t, n) = 0 /\ Utf8Text(t, n, src) # <<>>
        THEN <<" ", "\"">> \o Utf8Text(t, n, src) \o <<"\"">>
        ELSE <<>>)
  \o <<" ", SpanPiece(t, n, src), "\n">>

\* What one call of visit pushes for the node under the cursor (lines 90-104).
NodeLine(t, n, depth, src) ==
  Repeat(depth * UNIT, "-")
  \o <<t[n].kind>>
  \o (IF ChildCount(t, n) = 0
        THEN <<" ", "\"">> \o Utf8Text(t, n, src) \o <<"\"">>
        ELSE <<>>)
  \o <<" ", SpanPiece(t, n, src), "\n">>

Frame(depth, at) == [depth |-> depth, pc |-> "emit", entry |-> at]

Top == stack[Len(stack)]

SetTopPc(p) == [stack EXCEPT ![Len(stack)].pc = p]

\* write_tree: tree.walk(), String::new(), visit(&mut cursor, 0, ...)
WriteTreeStart(tool, t) ==
  /\ pc' = tool
  /\ tree' = t
  /\ cursor' = <<>>
  /\ result' = <<>>
  /\ stack' = <<Frame(0, <<>>)>>
  /\ UNCHANGED response

Running == pc \in Tools /\ stack # <<>>


\* ------------------------------------------------------------------ state

Init ==
  /\ \E p \in Parses : sql = p.src /\ language = (p.src :> p.tree)
  /\ pc = "idle"
  /\ tree = NoTree
  /\ cursor = <<>>
  /\ stack = <<>>
  /\ result = <<>>
  /\ response = [t \in Tools |-> None]

\* The strict gate with its branches exchanged.
ParseSql_Inverted ==
  /\ pc = "idle"
  /\ response[StrictTool] = None
  /\ LET t == Parse(sql)
     IN IF ~HasError(t, <<>>)
          THEN /\ response' = [response EXCEPT ![StrictTool] = InvalidParams]
               /\ UNCHANGED <<pc, tree, cursor, stack, result>>
          ELSE WriteTreeStart(StrictTool, t)
  /\ UNCHANGED <<sql, language>>

\* The strict tool rendering the tree before it looks at the gate.
ParseSql_RenderFirst ==
  /\ pc = "idle"
  /\ response[StrictTool] = None
  /\ WriteTreeStart(StrictTool, Parse(sql))
  /\ UNCHANGED <<sql, language>>

\* pub fn parse_sql(sql): parse, then reject when the root has_error, else
\* start write_tree.
ParseSql ==
  /\ pc = "idle"
  /\ response[StrictTool] = None
  /\ LET t == Parse(sql)
     IN IF HasError(t, <<>>)
          THEN /\ response' = [response EXCEPT ![StrictTool] = InvalidParams]
               /\ UNCHANGED <<pc, tree, cursor, stack, result>>
          ELSE WriteTreeStart(StrictTool, t)
  /\ UNCHANGED <<sql, language>>

\* The tolerant tool with the strict tool's gate left in.
ParseSqlWithErrorRecovery_Gated ==
  /\ pc = "idle"
  /\ response[TolerantTool] = None
  /\ LET t == Parse(sql)
     IN IF HasError(t, <<>>)
          THEN /\ response' = [response EXCEPT ![TolerantTool] = InvalidParams]
               /\ UNCHANGED <<pc, tree, cursor, stack, result>>
          ELSE WriteTreeStart(TolerantTool, t)
  /\ UNCHANGED <<sql, language>>

\* pub fn parse_sql_with_error_recovery(sql): parse, then start write_tree.
ParseSqlWithErrorRecovery ==
  /\ pc = "idle"
  /\ response[TolerantTool] = None
  /\ WriteTreeStart(TolerantTool, Parse(sql))
  /\ UNCHANGED <<sql, language>>

\* visit, lines 90-104: push the node's line.
VisitEmit ==
  /\ Running
  /\ Top.pc = "emit"
  /\ result' = result \o NodeLine(tree, cursor, Top.depth, sql)
  /\ stack' = SetTopPc("children")
  /\ UNCHANGED <<sql, language, pc, tree, cursor, response>>

\* The first child visited with the parent's depth instead of depth + 1.
VisitDescend_SameDepth ==
  /\ Running
  /\ Top.pc = "children"
  /\ GotoFirstChild(tree, cursor).ok
  /\ cursor' = GotoFirstChild(tree, cursor).at
  /\ stack' = Append(SetTopPc("siblings"), Frame(Top.depth, cursor'))
  /\ UNCHANGED <<sql, language, pc, tree, result, response>>

\* visit, lines 107-108: goto_first_child() succeeded, visit the first child.
VisitDescend ==
  /\ Running
  /\ Top.pc = "children"
  /\ GotoFirstChild(tree, cursor).ok
  /\ cursor' = GotoFirstChild(tree, cursor).at
  /\ stack' = Append(SetTopPc("siblings"), Frame(Top.depth + 1, cursor'))
  /\ UNCHANGED <<sql, language, pc, tree, result, response>>

\* visit, line 107: goto_first_child() failed, the call returns.
VisitLeafReturn ==
  /\ Running
  /\ Top.pc = "children"
  /\ ~GotoFirstChild(tree, cursor).ok
  /\ cursor' = GotoFirstChild(tree, cursor).at
  /\ stack' = SubSeq(stack, 1, Len(stack) - 1)
  /\ UNCHANGED <<sql, language, pc, tree, result, response>>

\* visit, lines 109-110: goto_next_sibling() succeeded, visit that sibling.
VisitNextSibling ==
  /\ Running
  /\ Top.pc = "siblings"
  /\ GotoNextSibling(tree, cursor).ok
  /\ cursor' = GotoNextSibling(tree, cursor).at
  /\ stack' = Append(stack, Frame(Top.depth + 1, cursor'))
  /\ UNCHANGED <<sql, language, pc, tree, result, response>>

\* The end of the sibling loop without the goto_parent() of line 112.
VisitAscend_NoGotoParent ==
  /\ Running
  /\ Top.pc = "siblings"
  /\ ~GotoNextSibling(tree, cursor).ok
  /\ cursor' = cursor
  /\ stack' = SubSeq(stack, 1, Len(stack) - 1)
  /\ UNCHANGED <<sql, language, pc, tree, result, response>>

\* visit, lines 109-113: goto_next_sibling() failed, goto_parent(), return.
VisitAscend ==
  /\ Running
  /\ Top.pc = "siblings"
  /\ ~GotoNextSibling(tree, cursor).ok
  /\ cursor' = GotoParent(tree, cursor).at
  /\ stack' = SubSeq(stack, 1, Len(stack) - 1)
  /\ UNCHANGED <<sql, language, pc, tree, result, response>>

\* write_tree returns result; the tool wraps it in a success and the tree,
\* the cursor and the string are dropped.
ToolReturn ==
  /\ pc \in Tools
  /\ stack = <<>>
  /\ response' = [response EXCEPT ![pc] = Success(result)]
  /\ pc' = "idle"
  /\ tree' = NoTree
  /\ cursor' = <<>>
  /\ result' = <<>>
  /\ UNCHANGED <<sql, language, stack>>

Next ==
  \/ ParseSql
  \/ ParseSqlWithErrorRecovery
  \/ VisitEmit
  \/ VisitDescend
  \/ VisitLeafReturn
  \/ VisitNextSibling
  \/ VisitAscend
  \/ ToolReturn

Spec == Init /\ [][Next]_vars


\* ======================================================== claims' vocabulary

\* The tree the parser returns for the input of this behaviour.
ParsedTree == Parse(sql)

Nodes == DOMAIN ParsedTree

Leaves == {n \in Nodes : ChildCount(ParsedTree, n) = 0}

ErrorNodes == {n \in Nodes : IsError(ParsedTree, n)}

MissingNodes == {n \in Nodes : IsMissing(ParsedTree, n)}

\* Document order, from the tree's structure alone: a node, then the subtrees
\* of its children from left to right.
RECURSIVE PreOrder(_, _)
PreOrder(t, n) ==
  <<n>> \o Concat([i \in 1..ChildCount(t, n) |-> PreOrder(t, n \o <<i>>)])

KindPieces ==
  {l.kind : l \in LeafLabels \cup InnerLabels \cup RootLeafLabels \cup RootInnerLabels}

SpanPieces == {SpanPiece(ParsedTree, n, sql) : n \in Nodes}

\* The places of text holding a piece of S, in increasing order.
Indices(text, S) ==
  LET I == {i \in 1..Len(text) : text[i] \in S}
  IN [k \in 1..Cardinality(I) |->
        CHOOSE i \in I : Cardinality({j \in I : j < i}) = k - 1]

Answered(tool) == response[tool].type # "None"

Rendered(tool) == response[tool].type = "Ok"

\* The tree holds an ERROR node or a missing node, at some depth.
Flagged == (ErrorNodes \cup MissingNodes) # {}

\* A quoted fragment that is empty: two double quotes side by side.
HasEmptyQuote(text) ==
  \E i \in 1..(Len(text) - 1) : text[i] = "\"" /\ text[i + 1] = "\""


\* ================================================================== claims

\* C1 as stated: parse_sql returns the error result if and only if some node
\* of the tree, at any depth, is an ERROR node; a tree with no ERROR node is
\* accepted and rendered.
C1_RejectsIffErrorNode ==
  Answered(StrictTool) =>
    /\ response[StrictTool].type = "Err" <=> ErrorNodes # {}
    /\ response[StrictTool].type = "Ok" <=> ErrorNodes = {}

\* C1 as amended: parse_sql returns the error result if and only if some node
\* of the tree, at any depth, is an ERROR node or a node the parser inserted
\* as missing; a tree with neither is accepted and rendered.
C1_RejectsIffErrorOrMissingNode ==
  Answered(StrictTool) =>
    /\ response[StrictTool].type = "Err" <=> (ErrorNodes \cup MissingNodes) # {}
    /\ response[StrictTool].type = "Ok" <=> (ErrorNodes \cup MissingNodes) = {}

\* parse_sql rejected a tree whose only flaw is a missing node below the
\* root's children.
C1_Witness ==
  /\ response[StrictTool].type = "Err"
  /\ ErrorNodes = {}
  /\ \E n \in MissingNodes : Len(n) >= 2

\* C2: a rejection by parse_sql is the invalid-parameters error with the one
\* fixed message, whatever the input; the renderer never runs for parse_sql
\* on a tree the gate rejects, and a rejection carries no rendered text.
C2_FixedErrorAndNoRendering ==
  /\ response[StrictTool].type = "Err" =>
       response[StrictTool] =
         [type |-> "Err", code |-> "invalid_params", message |-> "Failed to parse sql"]
  /\ Flagged =>
       /\ pc # StrictTool
       /\ response[StrictTool].type # "Ok"

\* parse_sql has rejected an input and nothing was rendered for it.
C2_Witness ==
  /\ response[StrictTool].type = "Err"
  /\ ~Answered(TolerantTool)
  /\ pc = "idle"
  /\ result = <<>>
  /\ sql # <<>>

\* C3: parse_sql_with_error_recovery never answers with an error and never
\* stops half way; its answer is the rendering of the whole tree, one node
\* line per node in document order, ERROR nodes included as ordinary lines.
C3_TolerantAlwaysRenders ==
  /\ response[TolerantTool].type \in {"None", "Ok"}
  /\ pc = TolerantTool => ENABLED Next
  /\ Rendered(TolerantTool) =>
       /\ response[TolerantTool].text =
            Concat([k \in 1..Cardinality(Nodes) |->
                      LET n == PreOrder(ParsedTree, <<>>)[k]
                      IN NodeLine(ParsedTree, n, Len(n), sql)])
       /\ Count(response[TolerantTool].text, "ERROR") = Cardinality(ErrorNodes)

\* The tolerant tool has answered for a tree holding an ERROR node below the
\* root, and the answer shows it.
C3_Witness ==
  /\ Rendered(TolerantTool)
  /\ \E n \in ErrorNodes : n # <<>>
  /\ Count(response[TolerantTool].text, "ERROR") >= 1

\* C4: if parse_sql succeeds on an input, parse_sql_with_error_recovery on
\* the same input returns a text with no ERROR line, and the two texts are
\* identical.
C4_StrictTolerantConsistency ==
  (Rendered(StrictTool) /\ Answered(TolerantTool)) =>
    /\ Rendered(TolerantTool)
    /\ response[TolerantTool].text = response[StrictTool].text
    /\ Count(response[TolerantTool].text, "ERROR") = 0

\* Both tools have answered with a text for a tree of several nodes.
C4_Witness ==
  /\ Rendered(StrictTool)
  /\ Rendered(TolerantTool)
  /\ Cardinality(Nodes) >= 3

\* C5 as stated: for an input whose tree is flagged (ERROR or missing nodes),
\* parse_sql returns the error and parse_sql_with_error_recovery returns a
\* text with at least one line whose kind marks an error/recovery artifact.
C5_RejectedInputShowsErrorLine ==
  (Flagged /\ Answered(StrictTool) /\ Answered(TolerantTool)) =>
    /\ response[StrictTool].type = "Err"
    /\ Rendered(TolerantTool)
    /\ Count(response[TolerantTool].text, "ERROR") >= 1

\* C5 as amended: for such an input parse_sql returns the error and the
\* tolerant tool returns a text; the text has as many ERROR lines as the tree
\* has ERROR nodes, so none when the tree is flagged for missing nodes only,
\* and then a missing node shows as a leaf line of its ordinary kind with an
\* empty quoted text.
C5_RejectedInputRendersErrorNodes ==
  (Flagged /\ Answered(StrictTool) /\ Answered(TolerantTool)) =>
    /\ response[StrictTool].type = "Err"
    /\ Rendered(TolerantTool)
    /\ Count(response[TolerantTool].text, "ERROR") = Cardinality(ErrorNodes)
    /\ ErrorNodes = {} =>
         /\ MissingNodes # {}
         /\ HasEmptyQuote(response[TolerantTool].text)

\* Both tools have answered for a tree flagged for a missing node only.
C5_Witness ==
  /\ response[StrictTool].type = "Err"
  /\ Rendered(TolerantTool)
  /\ ErrorNodes = {}
  /\ MissingNodes # {}


\* C6 as stated: the number of lines of a rendered text equals the number of
\* nodes of the tree, also when a leaf's quoted text holds a newline.
C6_OneLinePerNode ==
  \A tool \in Tools :
    Rendered(tool) => Count(response[tool].text, "\n") = Cardinality(Nodes)

\* C7: in a rendered text, between the kind and the span of a node without
\* children stand a space, the node's source slice in double quotes and a
\* space; between the kind and the span of a node with children stands a
\* single space, so no quoted fragment.
C7_LeafAnnotation ==
  \A tool \in Tools :
    Rendered(tool) =>
      LET text == response[tool].text
          order == PreOrder(ParsedTree, <<>>)
          ks == Indices(text, KindPieces)
          ss == Indices(text, SpanPieces)
      IN /\ Len(ks) = Len(order)
         /\ Len(ss) = Len(order)
         /\ \A k \in 1..Len(order) :
              LET between == SubSeq(text, ks[k] + 1, ss[k] - 1)
              IN IF order[k] \in Leaves
                   THEN between = <<" ", "\"">> \o Utf8Text(ParsedTree, order[k], sql)
                                                \o <<"\"", " ">>
                   ELSE between = <<" ">>

\* A text was rendered for a tree with an inner node below the root and a
\* leaf with text.
C7_Witness ==
  /\ Rendered(StrictTool)
  /\ \E n \in Nodes \ Leaves : n # <<>>
  /\ \E n \in Leaves : Utf8Text(ParsedTree, n, sql) # <<>>

\* C8 as stated: for the empty input both tools return a rendering, and no
\* line of it holds a double-quoted fragment.
C8_EmptyInputNoQuotes ==
  sql = <<>> =>
    \A tool \in Tools :
      Answered(tool) =>
        /\ Rendered(tool)
        /\ Count(response[tool].text, "\"") = 0

\* C8 as amended: for the empty input the tolerant tool returns a rendering,
\* and parse_sql returns the same one unless the tree is flagged; every node
\* without children, a root without children included, has a line with the
\* empty quoted fragment and there is no other quoted fragment, so a tree
\* of the root alone is the one line: kind "" [(0, 0)-(0, 0)].
C8_EmptyInputEmptyQuotes ==
  sql = <<>> =>
    /\ Answered(TolerantTool) => Rendered(TolerantTool)
    /\ Answered(StrictTool) => (Rendered(StrictTool) <=> ~Flagged)
    /\ \A tool \in Tools :
         Rendered(tool) =>
           LET text == response[tool].text
           IN /\ Count(text, "\"") = 2 * Cardinality(Leaves)
              /\ Cardinality(Leaves) >= 1
              /\ \A i \in 1..Len(text) :
                   text[i] = "\"" =>
                     \/ i < Len(text) /\ text[i + 1] = "\""
                     \/ i > 1 /\ text[i - 1] = "\""
              /\ Nodes = {<<>>} =>
                   text = <<ParsedTree[<<>>].kind, " ", "\"", "\"", " ",
                            "[(0, 0)-(0, 0)]", "\n">>

\* Both tools rendered the empty input, whose tree is the root alone.
C8_Witness ==
  /\ sql = <<>>
  /\ Nodes = {<<>>}
  /\ Rendered(StrictTool)
  /\ Rendered(TolerantTool)

\* The texts written so far: the one being written and the ones returned.
Written ==
  (IF pc \in Tools THEN {result} ELSE {})
  \cup {response[tool].text : tool \in {t \in Tools : Rendered(t)}}

\* C9: at every moment the node lines written are those of a prefix of the
\* document order (a node before its descendants, a child's whole subtree
\* before its next sibling, children left to right), all of it in a returned
\* text; the line of a node at depth d starts, at the start of the text or
\* after a line end, with exactly 2*d indentation characters followed at
\* once by the node's kind, and ends with the node's span.
C9_PreOrderAndIndentation ==
  \A text \in Written :
    LET order == PreOrder(ParsedTree, <<>>)
        ks == Indices(text, KindPieces)
        ss == Indices(text, SpanPieces)
    IN /\ Len(ks) <= Len(order)
       /\ Len(ss) = Len(ks)
       /\ (text \notin {result} \/ pc \notin Tools \/ stack = <<>>) =>
            Len(ks) = Len(order)
       /\ \A k \in 1..Len(ks) :
            LET n == order[k]
                first == ks[k] - 2 * Len(n)
            IN /\ text[ks[k]] = ParsedTree[n].kind
               /\ first >= 1
               /\ \A j \in first..(ks[k] - 1) : text[j] = "-"
               /\ first = 1 \/ text[first - 1] = "\n"
               /\ text[ss[k]] = SpanPiece(ParsedTree, n, sql)
               /\ ss[k] > ks[k]
               /\ k < Len(ks) => ss[k] < ks[k + 1]

\* A text was returned for a tree with a node at depth 2 followed by a
\* sibling of its parent.
C9_Witness ==
  /\ Rendered(TolerantTool)
  /\ <<1, 1>> \in Nodes
  /\ <<2>> \in Nodes

\* C10: every call of visit on the stack was entered with the cursor on a
\* node at the depth it was passed, each on a child of its caller's node;
\* the running call has the cursor on its own node until it descends and on
\* one of its children afterwards, so a call that returns leaves the cursor
\* where it found it and goto_next_sibling starts from the child just
\* visited; when write_tree is done the cursor is on the root.
C10_CursorRestored ==
  pc \in Tools =>
    /\ cursor \in DOMAIN tree
    /\ \A i \in 1..Len(stack) :
         /\ stack[i].entry \in DOMAIN tree
         /\ stack[i].depth = Len(stack[i].entry)
         /\ i = 1 => stack[i].entry = <<>>
         /\ i > 1 =>
              /\ stack[i - 1].pc = "siblings"
              /\ Len(stack[i].entry) = Len(stack[i - 1].entry) + 1
              /\ IsPrefix(stack[i - 1].entry, stack[i].entry)
         /\ i = Len(stack) =>
              IF stack[i].pc = "siblings"
                THEN /\ Len(cursor) = Len(stack[i].entry) + 1
                     /\ IsPrefix(stack[i].entry, cursor)
                ELSE cursor = stack[i].entry
    /\ stack = <<>> => cursor = <<>>

\* write_tree is done with a tree of depth 2 and the cursor is on the root.
C10_Witness ==
  /\ pc \in Tools
  /\ stack = <<>>
  /\ cursor = <<>>
  /\ \E n \in DOMAIN tree : Len(n) >= 2

====
